---- MODULE Spec2Model ----
(***************************************************************************)
(* Plugin.Exec of the Elastic Beanstalk deployment plugin, in its two      *)
(* variants:                                                               *)
(*   "single"  src/plugin.go          one EnvironmentName, with the        *)
(*                                    waitEnvironmentToBeReady pre-check   *)
(*   "multi"   src/unnamed/part_000   a list of Environments, no pre-check *)
(* One goroutine runs Exec.  It blocks in a remote call or in a select     *)
(* over two timer channels: tick (time.Tick, a channel of capacity 1 that  *)
(* drops a tick when it is full) and tout (time.After, one shot).          *)
(*                                                                         *)
(* Time is counted in poll intervals (10 s).  One step of time is one      *)
(* interval boundary: the ticker fires, and the deadline fires at the      *)
(* boundary number Timeout after the timers were made.  Both variants make *)
(* tick before tout, so at a common boundary the tick is sent first: a     *)
(* goroutine parked in the select proceeds with the tick case, the first   *)
(* communication that can proceed, and the deadline's value waits in its   *)
(* channel.  A goroutine that is in a remote call at the boundary finds    *)
(* both channels ready when it next reaches the select, and the select     *)
(* then takes either case.                                                 *)
(*                                                                         *)
(* Spec is Exec called on a Plugin value; FairSpec adds the scheduling     *)
(* under which Exec is argued to end; RunSpec starts one step earlier, in  *)
(* run of src/unnamed/part_001, which parses the timeout flag and calls    *)
(* the Exec of the Plugin with Environments.                               *)
(***************************************************************************)
EXTENDS Integers, Sequences, FiniteSets, TLC

\* ---- bounds of the model
MaxEnvs == 2
MaxTimeout == 3
MaxClock == 4

\* ---- values of the remote platform
VersionLabel == "v5"
Versions == {"v5", "v4"}
EnvironmentStatusReady == "Ready"
EnvironmentStatusUpdating == "Updating"
Statuses == {"Ready", "Updating", "Terminated"}

\* One element of DescribeEnvironmentsOutput.Environments.
EnvironmentDescription == [Status : Statuses, VersionLabel : Versions]

\* DescribeEnvironmentsOutput.Environments for a request that names n
\* environments: the platform lists the ones it knows, here all of them (in
\* the order asked) or none.
DescribeEnvironmentsOutput(n) ==
  {<< >>} \cup [1..n -> EnvironmentDescription]

\* Poll intervals (10 s) in time.Minute, the unit of the timeout flag.
TicksPerMinute == 6

\* Values of the timeout flag, as the characters of the string: its default
\* "20", other integers, and strings that are no integer.
TimeoutFlags ==
  {<<"2", "0">>, <<"0">>, <<"-", "1">>,
   << >>, <<"1", "m">>, <<"1", ".", "5">>, <<"-">>}

Digits == <<"0", "1", "2", "3", "4", "5", "6", "7", "8", "9">>

IsDigit(c) == \E i \in DOMAIN Digits : Digits[i] = c

DigitValue(c) == (CHOOSE i \in DOMAIN Digits : Digits[i] = c) - 1

RECURSIVE ParseDigits(_)
ParseDigits(ds) ==
  IF ds = << >> THEN 0
  ELSE ParseDigits(SubSeq(ds, 1, Len(ds) - 1)) * Len(Digits) + DigitValue(ds[Len(ds)])

\* strconv.Atoi: an optional sign and one or more decimal digits; anything
\* else is an error, with value 0.  (Values beyond the range of int are an
\* error too; TimeoutFlags has none.)
Atoi(str) ==
  LET signed == str # << >> /\ str[1] \in {"+", "-"}
      ds == IF signed THEN Tail(str) ELSE str
      ok == ds # << >> /\ \A i \in DOMAIN ds : IsDigit(ds[i])
  IN [err |-> ~ok,
      n |-> IF ~ok THEN 0
            ELSE IF signed /\ str[1] = "-" THEN 0 - ParseDigits(ds)
            ELSE ParseDigits(ds)]

\* The outcome of DescribeEvents: an error, or DescribeEventsOutput.Events
\* being empty or holding the one record asked for (MaxRecords 1).
DescribeEventsOutcome == {"err", "empty", "one"}

VARIABLES
  variant,            \* which Exec: "single" or "multi"
  artifact,           \* p.Bucket != "" && p.BucketKey != ""
  EnvironmentUpdate,  \* p.EnvironmentUpdate
  nEnvs,              \* number of target environments (1 in "single")
  Timeout,            \* p.Timeout, in poll intervals
  timeoutFlag,        \* c.String("timeout") of the command line, its characters
  pc,                 \* where the goroutine is
  result,             \* what Exec ended with, "none" while it runs
  clock,              \* interval boundaries passed while timers were running
  timers,             \* "off", "pre" (waitEnvironmentToBeReady) or "loop" (Exec)
  tick,               \* the tick channel holds a value
  tout,               \* the deadline channel holds a value
  toutAt,             \* the boundary at which the deadline fires
  updIdx,             \* environment of the UpdateEnvironment call in flight
  envs,               \* Environments of the last DescribeEnvironments response
  idx,                \* position of the range loop over envs ("multi")
  events,             \* outcome of the DescribeEvents call of this pass
  calls,              \* the remote calls issued so far, in order
  failed,             \* the calls that returned an error, in order
  precheck,           \* how waitEnvironmentToBeReady ended
  shortList,          \* a DescribeEnvironments response listed no environment
  polls,              \* reconcile polls (DescribeEnvironments in Exec's loop) begun
  latePolls,          \* of these, begun when the deadline had fired
  lateTicks           \* ticks fired during a poll begun after the deadline

req == <<variant, artifact, EnvironmentUpdate, nEnvs, Timeout, timeoutFlag>>
chan == <<timers, tick, tout, toutAt>>
poll == <<envs, idx, events>>
count == <<polls, latePolls, lateTicks>>
hist == <<failed, precheck, shortList, count>>
vars == <<req, pc, result, clock, chan, updIdx, poll, calls, hist>>

Outcomes ==
  {"Succeeded", "VersionMismatch", "UnexpectedStatus", "UpstreamError",
   "TimedOut", "Panic"}

\* What Exec has not touched yet.
Fresh ==
  /\ result = "none"
  /\ clock = 0
  /\ timers = "off" /\ tick = FALSE /\ tout = FALSE /\ toutAt = 0
  /\ updIdx = 0
  /\ envs = << >> /\ idx = 0 /\ events = "none"
  /\ calls = << >>
  /\ failed = << >>
  /\ precheck = "none"
  /\ shortList = FALSE
  /\ polls = 0 /\ latePolls = 0 /\ lateTicks = 0

\* Exec is called on a Plugin value; no command line is involved.
Init ==
  /\ variant \in {"single", "multi"}
  /\ artifact \in BOOLEAN
  /\ EnvironmentUpdate \in BOOLEAN
  /\ nEnvs \in 1..MaxEnvs
  /\ (variant = "single" => nEnvs = 1)
  /\ Timeout \in 0..MaxTimeout
  /\ timeoutFlag = << >>
  /\ pc = "start"
  /\ Fresh

\* main's run is called with the flags of the command line; it makes the
\* Plugin with the list of Environments.  Timeout is not set yet.
RunInit ==
  /\ variant = "multi"
  /\ artifact \in BOOLEAN
  /\ EnvironmentUpdate \in BOOLEAN
  /\ nEnvs \in 1..MaxEnvs
  /\ Timeout = 0
  /\ timeoutFlag \in TimeoutFlags
  /\ pc = "run"
  /\ Fresh

\* return <outcome>: Exec ends.
Return(outcome) ==
  /\ pc' = "done"
  /\ result' = outcome

\* A remote call is issued and the goroutine blocks in it.
Call(name, at) ==
  /\ calls' = Append(calls, name)
  /\ pc' = at

\* NewTimers with one deadline for Exec as a whole: the loop goes on with the
\* deadline the pre-check made.
NewTimersOneDeadline(owner) ==
  /\ timers' = owner
  /\ tick' = FALSE
  /\ tout' = IF timers = "pre" THEN tout ELSE (Timeout <= 0)
  /\ toutAt' = IF timers = "pre" THEN toutAt ELSE clock + Timeout

\* tick := time.Tick(10s); tout := time.After(p.Timeout).  A deadline of
\* zero or less has fired by the time the select is reached.
NewTimers(owner) ==
  /\ timers' = owner
  /\ tick' = FALSE
  /\ tout' = (Timeout <= 0)
  /\ toutAt' = clock + Timeout

\* The timers at the next interval boundary: the deadline fires when the
\* boundary is its own.
Boundary ==
  /\ timers # "off"
  /\ clock < MaxClock
  /\ clock' = clock + 1
  /\ tout' = (tout \/ clock + 1 = toutAt)
  /\ UNCHANGED <<timers, toutAt>>

\* The goroutine is parked in a select: no channel is ready.
Parked(at) == pc = at /\ ~tick /\ ~tout

\* An interval boundary passes while the goroutine is in a remote call made
\* after the timers: the tick is put in the channel, or dropped when the
\* channel holds one.
Advance ==
  /\ pc \in {"UpdateEnvironment", "DescribeEnvironments", "DescribeEvents",
             "waitDescribe"}
  /\ Boundary
  /\ tick' = TRUE
  /\ lateTicks' = IF pc \in {"DescribeEnvironments", "DescribeEvents"} /\ latePolls > 0
                   THEN lateTicks + 1 ELSE lateTicks
  /\ UNCHANGED <<req, pc, result, updIdx, poll, calls, failed, precheck,
                 shortList, polls, latePolls>>

\* Exec, up to the first remote call: CreateApplicationVersion when an
\* artifact location is given.
ExecStart ==
  /\ pc = "start"
  /\ IF artifact
       THEN Call("CreateApplicationVersion", "CreateApplicationVersion")
       ELSE pc' = "ifEnvironmentUpdate" /\ UNCHANGED calls
  /\ UNCHANGED <<req, result, clock, chan, updIdx, poll, hist>>

\* CreateApplicationVersionReturn without the test of p.EnvironmentUpdate:
\* the error is returned in every case.
CreateApplicationVersionReturnAlwaysFatal(err) ==
  /\ pc = "CreateApplicationVersion"
  /\ failed' = IF err THEN Append(failed, "CreateApplicationVersion") ELSE failed
  /\ IF err
       THEN Return("UpstreamError")
       ELSE pc' = "ifEnvironmentUpdate" /\ UNCHANGED result
  /\ UNCHANGED <<req, clock, chan, updIdx, poll, calls, precheck, shortList, count>>

\* CreateApplicationVersion returns.  "single" ignores the error when an
\* environment update was asked for; "multi" always returns it.
CreateApplicationVersionReturn(err) ==
  /\ pc = "CreateApplicationVersion"
  /\ failed' = IF err THEN Append(failed, "CreateApplicationVersion") ELSE failed
  /\ IF err /\ (variant = "multi" \/ ~EnvironmentUpdate)
       THEN Return("UpstreamError")
       ELSE pc' = "ifEnvironmentUpdate" /\ UNCHANGED result
  /\ UNCHANGED <<req, clock, chan, updIdx, poll, calls, precheck, shortList, count>>

\* IfEnvironmentUpdate without the test of the flag: the update is made in
\* every case.
IfEnvironmentUpdateAlways ==
  /\ pc = "ifEnvironmentUpdate"
  /\ UNCHANGED result
  /\ IF variant = "single"
       THEN pc' = "waitSelect" /\ NewTimers("pre") /\ UNCHANGED <<updIdx, calls>>
       ELSE Call("UpdateEnvironment", "UpdateEnvironment") /\ updIdx' = 1
            /\ UNCHANGED chan
  /\ UNCHANGED <<req, clock, poll, hist>>

\* if p.EnvironmentUpdate { ... }; return nil
\* "single" enters waitEnvironmentToBeReady, which makes its timers;
\* "multi" issues UpdateEnvironment for the first environment.
IfEnvironmentUpdate ==
  /\ pc = "ifEnvironmentUpdate"
  /\ IF ~EnvironmentUpdate
       THEN Return("Succeeded") /\ UNCHANGED <<chan, updIdx, calls>>
       ELSE /\ UNCHANGED result
            /\ IF variant = "single"
                 THEN pc' = "waitSelect" /\ NewTimers("pre") /\ UNCHANGED <<updIdx, calls>>
                 ELSE Call("UpdateEnvironment", "UpdateEnvironment") /\ updIdx' = 1
                      /\ UNCHANGED chan
  /\ UNCHANGED <<req, clock, poll, hist>>

\* waitEnvironmentToBeReady, case <-tick: DescribeEnvironments is issued.
WaitPoll ==
  /\ Call("DescribeEnvironments", "waitDescribe")
  /\ UNCHANGED <<req, result, updIdx, poll, hist>>

\* waitEnvironmentToBeReady: the select is reached with a tick waiting.
WaitTick ==
  /\ pc = "waitSelect"
  /\ tick
  /\ tick' = FALSE
  /\ WaitPoll
  /\ UNCHANGED <<clock, timers, tout, toutAt>>

\* waitEnvironmentToBeReady: the goroutine is parked in the select when the
\* ticker fires.
WaitTickFires ==
  /\ Parked("waitSelect")
  /\ Boundary
  /\ tick' = FALSE
  /\ WaitPoll

\* WaitTimeout with the error of waitEnvironmentToBeReady dropped by Exec,
\* which goes on to UpdateEnvironment.
WaitTimeoutIgnored ==
  /\ pc = "waitSelect"
  /\ tout
  /\ precheck' = "timeout"
  /\ NewTimers("loop")
  /\ Call("UpdateEnvironment", "UpdateEnvironment")
  /\ updIdx' = 1
  /\ UNCHANGED <<req, result, clock, poll, failed, shortList, count>>

\* waitEnvironmentToBeReady: case <-tout; Exec returns the error.
WaitTimeout ==
  /\ pc = "waitSelect"
  /\ tout
  /\ precheck' = "timeout"
  /\ Return("TimedOut")
  /\ UNCHANGED <<req, clock, chan, updIdx, poll, calls, failed, shortList, count>>

\* WaitDescribeReturn without the test of the status: the function returns
\* nil on the first response that lists the environment.
WaitDescribeReturnAnyStatus(err, out) ==
  /\ pc = "waitDescribe"
  /\ envs' = IF ~err /\ out = << >> THEN out ELSE envs
  /\ UNCHANGED <<idx, events>>
  /\ failed' = IF err THEN Append(failed, "DescribeEnvironments") ELSE failed
  /\ shortList' = (shortList \/ (~err /\ out = << >>))
  /\ IF err
       THEN precheck' = "error" /\ Return("UpstreamError")
            /\ UNCHANGED <<chan, updIdx, calls>>
       ELSE IF out = << >>
         THEN precheck' = "panic" /\ Return("Panic")
              /\ UNCHANGED <<chan, updIdx, calls>>
         ELSE /\ precheck' = IF out[1].Status = EnvironmentStatusReady
                               THEN "ready" ELSE "returned"
              /\ NewTimers("loop")
              /\ Call("UpdateEnvironment", "UpdateEnvironment")
              /\ updIdx' = 1
              /\ UNCHANGED result
  /\ UNCHANGED <<req, clock, count>>

\* waitEnvironmentToBeReady: DescribeEnvironments returns.  On Ready the
\* function returns nil and Exec goes on: it makes the loop's timers and
\* issues UpdateEnvironment.  The response is local to one pass of the loop.
WaitDescribeReturn(err, out) ==
  /\ pc = "waitDescribe"
  /\ envs' = IF ~err /\ out = << >> THEN out ELSE envs
  /\ UNCHANGED <<idx, events>>
  /\ failed' = IF err THEN Append(failed, "DescribeEnvironments") ELSE failed
  /\ shortList' = (shortList \/ (~err /\ out = << >>))
  /\ IF err
       THEN precheck' = "error" /\ Return("UpstreamError")
            /\ UNCHANGED <<chan, updIdx, calls>>
       ELSE IF out = << >>
         THEN precheck' = "panic" /\ Return("Panic")
              /\ UNCHANGED <<chan, updIdx, calls>>
         ELSE IF out[1].Status = EnvironmentStatusReady
           THEN /\ precheck' = "ready"
                /\ NewTimers("loop")
                /\ Call("UpdateEnvironment", "UpdateEnvironment")
                /\ updIdx' = 1
                /\ UNCHANGED result
           ELSE /\ pc' = "waitSelect"
                /\ UNCHANGED <<result, precheck, chan, updIdx, calls>>
  /\ UNCHANGED <<req, clock, count>>

\* UpdateEnvironmentReturn with the error logged and not returned.
UpdateEnvironmentReturnIgnoresError(err) ==
  /\ pc = "UpdateEnvironment"
  /\ failed' = IF err THEN Append(failed, "UpdateEnvironment") ELSE failed
  /\ UNCHANGED result
  /\ IF variant = "multi" /\ updIdx < nEnvs
       THEN Call("UpdateEnvironment", "UpdateEnvironment")
            /\ updIdx' = updIdx + 1 /\ UNCHANGED chan
       ELSE /\ pc' = "select"
            /\ UNCHANGED <<updIdx, calls>>
            /\ IF variant = "multi" THEN NewTimers("loop") ELSE UNCHANGED chan
  /\ UNCHANGED <<req, clock, poll, precheck, shortList, count>>

\* UpdateEnvironment returns.  "multi" goes on to the next environment of
\* the range loop and makes the timers after the last; "single" made them
\* before the call.
UpdateEnvironmentReturn(err) ==
  /\ pc = "UpdateEnvironment"
  /\ failed' = IF err THEN Append(failed, "UpdateEnvironment") ELSE failed
  /\ IF err
       THEN Return("UpstreamError") /\ UNCHANGED <<chan, updIdx, calls>>
       ELSE /\ UNCHANGED result
            /\ IF variant = "multi" /\ updIdx < nEnvs
                 THEN Call("UpdateEnvironment", "UpdateEnvironment")
                      /\ updIdx' = updIdx + 1 /\ UNCHANGED chan
                 ELSE /\ pc' = "select"
                      /\ UNCHANGED <<updIdx, calls>>
                      /\ IF variant = "multi" THEN NewTimers("loop") ELSE UNCHANGED chan
  /\ UNCHANGED <<req, clock, poll, precheck, shortList, count>>

\* Exec's loop, case <-tick: DescribeEnvironments is issued.
Poll ==
  /\ Call("DescribeEnvironments", "DescribeEnvironments")
  /\ polls' = polls + 1
  /\ UNCHANGED <<req, result, updIdx, poll, failed, precheck, shortList, lateTicks>>

\* SelectTick with the tick left in the channel.
SelectTickKeepsTick ==
  /\ pc = "select"
  /\ tick
  /\ Poll
  /\ latePolls' = IF tout THEN latePolls + 1 ELSE latePolls
  /\ UNCHANGED <<clock, timers, tick, tout, toutAt>>

\* Exec's loop: the select is reached with a tick waiting; the deadline may
\* have fired as well.
SelectTick ==
  /\ pc = "select"
  /\ tick
  /\ tick' = FALSE
  /\ Poll
  /\ latePolls' = IF tout THEN latePolls + 1 ELSE latePolls
  /\ UNCHANGED <<clock, timers, tout, toutAt>>

\* Exec's loop: the goroutine is parked in the select when the ticker fires.
TickFires ==
  /\ Parked("select")
  /\ Boundary
  /\ tick' = FALSE
  /\ Poll
  /\ UNCHANGED latePolls

\* Exec's loop: case <-tout
SelectTimeout ==
  /\ pc = "select"
  /\ tout
  /\ Return("TimedOut")
  /\ UNCHANGED <<req, clock, chan, updIdx, poll, calls, hist>>

\* DescribeEnvironmentsReturn with the call issued again when it failed.
DescribeEnvironmentsReturnRetries(err, out) ==
  /\ pc = "DescribeEnvironments"
  /\ failed' = IF err THEN Append(failed, "DescribeEnvironments") ELSE failed
  /\ shortList' = (shortList \/ (~err /\ out = << >>))
  /\ events' = events
  /\ UNCHANGED result
  /\ IF err
       THEN Call("DescribeEnvironments", "DescribeEnvironments") /\ UNCHANGED <<envs, idx>>
       ELSE IF variant = "multi" /\ out = << >>
         THEN pc' = "select" /\ UNCHANGED <<envs, idx, calls>>
         ELSE Call("DescribeEvents", "DescribeEvents") /\ envs' = out /\ idx' = 1
  /\ UNCHANGED <<req, clock, chan, updIdx, precheck, count>>

\* Exec's loop: DescribeEnvironments returns.  "single" asks for the latest
\* event next; "multi" ranges over the environments listed, asking for the
\* latest event of each, and is back at the select when none is listed.
DescribeEnvironmentsReturn(err, out) ==
  /\ pc = "DescribeEnvironments"
  /\ failed' = IF err THEN Append(failed, "DescribeEnvironments") ELSE failed
  /\ shortList' = (shortList \/ (~err /\ out = << >>))
  /\ events' = events
  /\ IF err
       THEN Return("UpstreamError") /\ UNCHANGED <<envs, idx, calls>>
       ELSE /\ UNCHANGED result
            /\ IF variant = "multi" /\ out = << >>
                 THEN pc' = "select" /\ UNCHANGED <<envs, idx, calls>>
                 ELSE Call("DescribeEvents", "DescribeEvents") /\ envs' = out /\ idx' = 1
  /\ UNCHANGED <<req, clock, chan, updIdx, precheck, count>>

\* ClassifySingle without the comparison of the versions: Ready is success.
ClassifySingleIgnoresVersion(out, ev) ==
  IF out = << >> \/ ev = "empty" THEN "Panic"
  ELSE IF out[1].Status = EnvironmentStatusReady THEN "Succeeded"
  ELSE IF out[1].Status # EnvironmentStatusUpdating THEN "UnexpectedStatus"
  ELSE "continue"

\* plugin.go, after both calls of a poll returned without error: index
\* element 0 of both lists, then classify the status and the version.
ClassifySingle(out, ev) ==
  IF out = << >> \/ ev = "empty" THEN "Panic"
  ELSE IF out[1].Status = EnvironmentStatusReady
    THEN IF VersionLabel # out[1].VersionLabel THEN "VersionMismatch" ELSE "Succeeded"
    ELSE IF out[1].Status # EnvironmentStatusUpdating THEN "UnexpectedStatus"
    ELSE "continue"

\* part_000, body of the range loop for one environment after its
\* DescribeEvents returned without error.  event.Events[0] is read only for
\* the log fields of the two failures.
ClassifyMulti(env, ev) ==
  IF env.Status = EnvironmentStatusReady /\ VersionLabel # env.VersionLabel
    THEN IF ev = "empty" THEN "Panic" ELSE "VersionMismatch"
  ELSE IF env.Status # EnvironmentStatusUpdating
    THEN IF ev = "empty" THEN "Panic" ELSE "UnexpectedStatus"
  ELSE "continue"

\* DescribeEventsReturn with the update asked for again when the pass finds
\* the environments still Updating.
DescribeEventsReturnUpdatesAgain(ev) ==
  /\ pc = "DescribeEvents"
  /\ failed' = IF ev = "err" THEN Append(failed, "DescribeEvents") ELSE failed
  /\ LET class == IF ev = "err" THEN "UpstreamError"
                  ELSE IF variant = "single" THEN ClassifySingle(envs, ev)
                  ELSE ClassifyMulti(envs[idx], ev)
     IN IF class # "continue"
          THEN Return(class) /\ events' = ev /\ UNCHANGED <<envs, idx, calls>>
          ELSE /\ UNCHANGED result
               /\ IF variant = "multi" /\ idx < Len(envs)
                    THEN /\ Call("DescribeEvents", "DescribeEvents")
                         /\ idx' = idx + 1 /\ events' = "none" /\ UNCHANGED envs
                    ELSE /\ Call("UpdateEnvironment", "UpdateEnvironment")
                         /\ envs' = << >> /\ idx' = 0 /\ events' = "none"
  /\ UNCHANGED <<req, clock, chan, updIdx, precheck, shortList, count>>

\* Exec's loop: DescribeEvents returns; the poll's snapshot is classified.
\* envs, idx and events are local to one pass of the loop: they keep their
\* values when Exec ends in the pass and are gone when the pass ends.
DescribeEventsReturn(ev) ==
  /\ pc = "DescribeEvents"
  /\ failed' = IF ev = "err" THEN Append(failed, "DescribeEvents") ELSE failed
  /\ LET class == IF ev = "err" THEN "UpstreamError"
                  ELSE IF variant = "single" THEN ClassifySingle(envs, ev)
                  ELSE ClassifyMulti(envs[idx], ev)
     IN IF class # "continue"
          THEN Return(class) /\ events' = ev /\ UNCHANGED <<envs, idx, calls>>
          ELSE /\ UNCHANGED result
               /\ IF variant = "multi" /\ idx < Len(envs)
                    THEN /\ Call("DescribeEvents", "DescribeEvents")
                         /\ idx' = idx + 1 /\ events' = "none" /\ UNCHANGED envs
                    ELSE /\ pc' = "select"
                         /\ envs' = << >> /\ idx' = 0 /\ events' = "none"
                         /\ UNCHANGED calls
  /\ UNCHANGED <<req, clock, chan, updIdx, precheck, shortList, count>>

Next ==
  \/ ExecStart
  \/ \E err \in BOOLEAN : CreateApplicationVersionReturn(err)
  \/ IfEnvironmentUpdate
  \/ WaitTick
  \/ WaitTickFires
  \/ WaitTimeout
  \/ \E err \in BOOLEAN, out \in DescribeEnvironmentsOutput(1) :
       WaitDescribeReturn(err, out)
  \/ \E err \in BOOLEAN : UpdateEnvironmentReturn(err)
  \/ SelectTick
  \/ TickFires
  \/ SelectTimeout
  \/ \E err \in BOOLEAN, out \in DescribeEnvironmentsOutput(nEnvs) :
       DescribeEnvironmentsReturn(err, out)
  \/ \E ev \in DescribeEventsOutcome : DescribeEventsReturn(ev)
  \/ Advance

Spec == Init /\ [][Next]_vars

\* run with the error of strconv.Atoi dropped: Exec is called with the value
\* Atoi gives with an error, 0.
RunIgnoresAtoiError ==
  /\ pc = "run"
  /\ pc' = "start"
  /\ Timeout' = Atoi(timeoutFlag).n * TicksPerMinute
  /\ UNCHANGED <<variant, artifact, EnvironmentUpdate, nEnvs, timeoutFlag,
                 result, clock, chan, updIdx, poll, calls, hist>>

\* run: the timeout flag is parsed; on an error run returns it, else it
\* makes the Plugin, with Timeout the minutes parsed, and calls Exec.
Run ==
  /\ pc = "run"
  /\ IF Atoi(timeoutFlag).err
       THEN Return("ConfigError") /\ UNCHANGED Timeout
       ELSE /\ pc' = "start"
            /\ Timeout' = Atoi(timeoutFlag).n * TicksPerMinute
            /\ UNCHANGED result
  /\ UNCHANGED <<variant, artifact, EnvironmentUpdate, nEnvs, timeoutFlag,
                 clock, chan, updIdx, poll, calls, hist>>

\* run, and the Exec it calls: the one of the Plugin with Environments.
RunNext ==
  \/ Run
  \/ ExecStart
  \/ \E err \in BOOLEAN : CreateApplicationVersionReturn(err)
  \/ IfEnvironmentUpdate
  \/ \E err \in BOOLEAN : UpdateEnvironmentReturn(err)
  \/ SelectTick
  \/ TickFires
  \/ SelectTimeout
  \/ \E err \in BOOLEAN, out \in DescribeEnvironmentsOutput(nEnvs) :
       DescribeEnvironmentsReturn(err, out)
  \/ \E ev \in DescribeEventsOutcome : DescribeEventsReturn(ev)
  \/ Advance

RunSpec == RunInit /\ [][RunNext]_vars

\* The steps of the goroutine and of the calls it waits for: everything but
\* the passing of time during a call.
Progress ==
  \/ ExecStart
  \/ \E err \in BOOLEAN : CreateApplicationVersionReturn(err)
  \/ IfEnvironmentUpdate
  \/ WaitTick
  \/ WaitTickFires
  \/ WaitTimeout
  \/ \E err \in BOOLEAN, out \in DescribeEnvironmentsOutput(1) :
       WaitDescribeReturn(err, out)
  \/ \E err \in BOOLEAN : UpdateEnvironmentReturn(err)
  \/ SelectTick
  \/ TickFires
  \/ SelectTimeout
  \/ \E err \in BOOLEAN, out \in DescribeEnvironmentsOutput(nEnvs) :
       DescribeEnvironmentsReturn(err, out)
  \/ \E ev \in DescribeEventsOutcome : DescribeEventsReturn(ev)

\* The goroutine runs, every remote call returns, the ticker fires for a
\* parked select, and a select that finds the deadline ready again and again
\* takes the deadline case in the end (the runtime chooses among the ready
\* cases uniformly at random).
Fairness ==
  /\ WF_vars(Progress)
  /\ SF_vars(WaitTimeout)
  /\ SF_vars(SelectTimeout)

FairSpec == Spec /\ Fairness

\* ---- what the claims speak of

NumCalls(name) == Cardinality({i \in DOMAIN calls : calls[i] = name})

ReadyDesired == [Status |-> EnvironmentStatusReady, VersionLabel |-> VersionLabel]

\* Exec ended in a pass of its loop in which the calls made for environment
\* idx (DescribeEnvironments, then DescribeEvents) returned without error:
\* envs[idx] is the snapshot the pass observed.
Observed ==
  /\ pc = "done"
  /\ polls > 0
  /\ idx \in DOMAIN envs
  /\ events \in {"empty", "one"}

\* C1: "single": a reconcile poll whose snapshot is Ready with the desired
\* version makes Exec return nil.
C1_ReadyDesiredSucceeds ==
  (variant = "single" /\ Observed /\ envs[idx] = ReadyDesired)
    => result = "Succeeded"

\* C2: "multi": when every UpdateEnvironment succeeded and a poll observes
\* every target environment Ready with the desired version, Exec ends
\* Succeeded.  Stated for the polls whose latest-event record is there, so
\* that reading it cannot be what ends Exec.
C2_AllReadySucceeds ==
  (/\ variant = "multi"
   /\ Observed
   /\ events = "one"
   /\ NumCalls("UpdateEnvironment") = nEnvs
   /\ Len(envs) = nEnvs
   /\ \A i \in DOMAIN envs : envs[i] = ReadyDesired)
    => result = "Succeeded"

\* C3: both variants: a poll that observes an environment Ready with a
\* version other than the desired one ends Exec with the version-mismatch
\* failure, in that poll.
C3_ReadyOtherVersionMismatch ==
  (/\ Observed
   /\ envs[idx].Status = EnvironmentStatusReady
   /\ envs[idx].VersionLabel # VersionLabel)
    => result = "VersionMismatch"

\* C4: both variants: a poll that observes an environment whose status is
\* neither Updating nor Ready ends Exec with the unexpected-status failure,
\* and Exec never ends on observing Updating.
C4_UnexpectedStatus ==
  Observed =>
    /\ envs[idx].Status \notin {EnvironmentStatusUpdating, EnvironmentStatusReady}
         => result = "UnexpectedStatus"
    /\ envs[idx].Status # EnvironmentStatusUpdating

C6_ThreePollsSucceed ==
  (/\ pc = "done"
   /\ timers = "loop"
   /\ nEnvs = 1
   /\ Timeout = 3
   /\ failed = << >>
   /\ ~shortList)
    => /\ (polls = 3 /\ Observed /\ events = "one" /\ envs[idx] = ReadyDesired)
            => result = "Succeeded"
       /\ (result = "TimedOut" /\ ~tick /\ polls = clock - (toutAt - Timeout))
            => polls >= 3

InFailed(name) == \E i \in DOMAIN failed : failed[i] = name

\* The failure Exec ended with is the first environment's: its
\* UpdateEnvironment call failed, or the reconcile loop ended before it got
\* past the first environment.
FirstEnvironmentFailed ==
  /\ pc = "done"
  /\ result \in {"VersionMismatch", "UnexpectedStatus", "UpstreamError", "TimedOut"}
  /\ IF polls = 0 /\ result = "UpstreamError" THEN updIdx = 1 ELSE idx <= 1

\* C7, as claimed: "multi", two or more environments: when the first
\* environment ends with a failure, UpdateEnvironment was issued for no other
\* environment.
C7_FirstFailureStopsUpdates ==
  (variant = "multi" /\ nEnvs >= 2 /\ FirstEnvironmentFailed)
    => NumCalls("UpdateEnvironment") <= 1

\* C7, amended: "multi": an UpdateEnvironment error for environment k ends
\* Exec with UpdateEnvironment issued for environments 1..k only (none of
\* 2..N when k = 1); the reconcile loop starts after UpdateEnvironment was
\* issued for all N, so every reconcile failure comes after those calls.
C7_UpdateErrorStopsUpdates ==
  variant = "multi" =>
    /\ InFailed("UpdateEnvironment")
         => /\ pc = "done"
            /\ result = "UpstreamError"
            /\ NumCalls("UpdateEnvironment") = updIdx
    /\ polls > 0 => NumCalls("UpdateEnvironment") = nEnvs

C7_Witness ==
  /\ variant = "multi"
  /\ nEnvs >= 2
  /\ failed = <<"UpdateEnvironment">>
  /\ NumCalls("UpdateEnvironment") = 1

\* Exec returned the CreateApplicationVersion error: that call is the only
\* one it made.
ReturnedCreateError ==
  /\ pc = "done"
  /\ result = "UpstreamError"
  /\ calls = <<"CreateApplicationVersion">>

\* C8, as claimed: in every variant, a failed CreateApplicationVersion ends
\* Exec at once when no environment update was asked for, and does not end
\* it when one was; the call is made once.
C8_CreateFailure ==
  InFailed("CreateApplicationVersion") =>
    /\ NumCalls("CreateApplicationVersion") = 1
    /\ IF EnvironmentUpdate THEN ~ReturnedCreateError ELSE ReturnedCreateError

\* C8, amended: that holds of "single"; "multi" returns the error at once
\* whether or not an environment update was asked for.
C8_CreateFailureByVariant ==
  InFailed("CreateApplicationVersion") =>
    /\ NumCalls("CreateApplicationVersion") = 1
    /\ IF variant = "single" /\ EnvironmentUpdate
         THEN ~ReturnedCreateError
         ELSE ReturnedCreateError

\* "single" went on after the failed CreateApplicationVersion, through the
\* pre-check, to UpdateEnvironment.
C8_Witness ==
  /\ variant = "single"
  /\ InFailed("CreateApplicationVersion")
  /\ NumCalls("UpdateEnvironment") = 1

\* C9, as claimed: "single" with an environment update: no
\* CreateApplicationVersion and no UpdateEnvironment before the pre-check
\* ended on Ready.
C9_NoMutationBeforeReady ==
  (variant = "single" /\ EnvironmentUpdate /\ precheck # "ready")
    => /\ NumCalls("CreateApplicationVersion") = 0
       /\ NumCalls("UpdateEnvironment") = 0

\* C9, amended: "single": UpdateEnvironment is issued only after the
\* pre-check ended on Ready; CreateApplicationVersion, when an artifact
\* location is given, was issued once before the pre-check started.
C9_NoUpdateBeforeReady ==
  variant = "single" =>
    /\ NumCalls("UpdateEnvironment") > 0 => precheck = "ready"
    /\ timers = "pre" => NumCalls("CreateApplicationVersion") = (IF artifact THEN 1 ELSE 0)

C9_Witness ==
  /\ variant = "single"
  /\ precheck = "ready"
  /\ calls = <<"CreateApplicationVersion", "DescribeEnvironments",
               "DescribeEnvironments", "UpdateEnvironment">>

\* C10: "single": when the pre-check ends with a DescribeEnvironments error
\* or with its deadline, Exec has returned that failure, and UpdateEnvironment
\* is not called and no reconcile poll is made.
C10_PrecheckFailureEndsExec ==
  precheck \in {"error", "timeout"} =>
    /\ pc = "done"
    /\ result = (IF precheck = "error" THEN "UpstreamError" ELSE "TimedOut")
    /\ NumCalls("UpdateEnvironment") = 0
    /\ NumCalls("DescribeEvents") = 0
    /\ polls = 0

\* The pre-check polled, did not see Ready, and its deadline fired.
C10_Witness ==
  /\ precheck = "timeout"
  /\ NumCalls("DescribeEnvironments") >= 1

ReadOnly == {"DescribeEnvironments", "DescribeEvents"}

\* The place in calls of the first DescribeEnvironments of Exec's loop: the
\* ones before it are the pre-check's.
FirstPollAt ==
  CHOOSE i \in DOMAIN calls :
    /\ calls[i] = "DescribeEnvironments"
    /\ Cardinality({j \in 1..i : calls[j] = "DescribeEnvironments"})
         = NumCalls("DescribeEnvironments") - polls + 1

\* C11: UpdateEnvironment is issued at most once for each target environment
\* (the calls so far are for environments 1..updIdx, one each), and every
\* call from the first reconcile poll on is DescribeEnvironments or
\* DescribeEvents: no CreateApplicationVersion, no UpdateEnvironment.
C11_OneUpdateThenReadOnly ==
  /\ NumCalls("UpdateEnvironment") = updIdx
  /\ updIdx <= nEnvs
  /\ polls > 0 =>
       LET first == FirstPollAt
       IN \A i \in DOMAIN calls : i >= first => calls[i] \in ReadOnly

\* Two environments were updated and the loop is in its second poll.
C11_Witness ==
  /\ nEnvs = 2
  /\ NumCalls("UpdateEnvironment") = 2
  /\ polls = 2
  /\ pc = "DescribeEvents"

\* C12: an error of UpdateEnvironment, DescribeEnvironments or DescribeEvents
\* (in the pre-check as in the loop) ends Exec with that error: the failed
\* call is the last call issued and the last that failed, so nothing is
\* issued after it and it is not issued again.
C12_ErrorEndsExec ==
  \A i \in DOMAIN failed :
    failed[i] \in {"UpdateEnvironment", "DescribeEnvironments", "DescribeEvents"}
      => /\ i = Len(failed)
         /\ pc = "done"
         /\ result = "UpstreamError"
         /\ calls[Len(calls)] = failed[i]

\* DescribeEvents failed in the second poll of the loop.
C12_Witness ==
  /\ pc = "done"
  /\ polls = 2
  /\ failed # << >>
  /\ failed[Len(failed)] = "DescribeEvents"

\* The clock of the model has reached its bound with the deadline of the
\* running phase still ahead: the run goes on beyond what is modelled.
AtHorizon == clock = MaxClock /\ toutAt > MaxClock /\ pc # "done"

\* Exec ends, in whatever way, in every run that stays within the bound of
\* the clock.
ExecEnds == <>(pc = "done" \/ AtHorizon)

\* C13: under the fairness of FairSpec, every invocation ends with one of
\* the results success, reported failure or timed out, whatever the remote
\* platform answers (runs that reach the bound of the clock aside).
C13_EndsWithResult ==
  <>((pc = "done" /\ result \in Outcomes \ {"Panic"}) \/ AtHorizon)

\* C14: every execution ends in one of Succeeded, VersionMismatch,
\* UnexpectedStatus, UpstreamError, TimedOut; a response that lists no
\* environment or no event leads there or to more polling.
C14_EndsInOutcomeSet ==
  pc = "done" =>
    result \in {"Succeeded", "VersionMismatch", "UnexpectedStatus",
                "UpstreamError", "TimedOut"}

\* Exec's step on the DescribeEvents response e1 and its step on e2 agree on
\* where Exec is next, on its result and on the calls issued.  The step is a
\* function of the state and the response, so two runs that differ only in
\* the events of successful responses agree throughout when every such pair
\* of steps does.
SameStep(e1, e2) ==
  \A p \in {"done", "select", "DescribeEvents"}, o \in Outcomes \cup {"none"},
     c \in {calls, Append(calls, "DescribeEvents")} :
    ENABLED (DescribeEventsReturn(e1) /\ pc' = p /\ result' = o /\ calls' = c)
      <=> ENABLED (DescribeEventsReturn(e2) /\ pc' = p /\ result' = o /\ calls' = c)

\* C15: what a successful DescribeEvents call returns (a record with any
\* message, or no record) changes neither the calls Exec issues nor its
\* outcome.  The message of a record is read for the log only and is not in
\* the model; the responses compared are the record and the empty list.
C15_EventsNeverSteer ==
  pc = "DescribeEvents" => SameStep("one", "empty")

\* C16: a timeout flag that is no integer makes run return the error of
\* the conversion: Exec is not called and no remote call is issued.
C16_InvalidTimeoutFails ==
  Atoi(timeoutFlag).err
    => /\ calls = << >>
       /\ pc \in {"run", "done"}
       /\ pc = "done" => result = "ConfigError"

\* run has returned the error for the flag "1m".
C16_Witness ==
  /\ timeoutFlag = <<"1", "m">>
  /\ pc = "done"
  /\ result = "ConfigError"

\* C17: Exec ends Succeeded with an environment update asked for only when
\* the pass of its loop it ended in observed the environment Ready with the
\* desired version, in a poll begun after the UpdateEnvironment call; so not
\* by the deadline, an error, another status or what the pre-check saw.
C17_SuccessOnlyAfterReadyPoll ==
  (pc = "done" /\ result = "Succeeded" /\ EnvironmentUpdate)
    => /\ Observed
       /\ envs[idx] = ReadyDesired
       /\ calls[Len(calls)] = "DescribeEvents"
       /\ NumCalls("UpdateEnvironment") = nEnvs
       /\ LET first == FirstPollAt
          IN \A i \in DOMAIN calls : calls[i] = "UpdateEnvironment" => i < first

\* Success in the second poll after the update.
C17_Witness ==
  /\ pc = "done"
  /\ result = "Succeeded"
  /\ EnvironmentUpdate
  /\ polls = 2

\* C18: without the environment-update flag Exec issues no UpdateEnvironment,
\* DescribeEnvironments or DescribeEvents call, makes no timer and enters no
\* loop, and it ends Succeeded exactly when CreateApplicationVersion was
\* skipped or returned without error (else with that error).
C18_NoUpdateNoPolling ==
  ~EnvironmentUpdate
    => /\ \A i \in DOMAIN calls : calls[i] = "CreateApplicationVersion"
       /\ timers = "off"
       /\ polls = 0
       /\ pc \in {"start", "CreateApplicationVersion", "ifEnvironmentUpdate", "done"}
       /\ pc = "done"
            => result = (IF ~artifact \/ ~InFailed("CreateApplicationVersion")
                           THEN "Succeeded" ELSE "UpstreamError")

\* The version was created and Exec ended Succeeded without an update.
C18_Witness ==
  /\ ~EnvironmentUpdate
  /\ pc = "done"
  /\ result = "Succeeded"
  /\ calls = <<"CreateApplicationVersion">>

\* C19: the pre-check returns nil on the first response whose status is
\* Ready, whatever its version, and goes back to its select on every other
\* successful response; it ends by Ready, by a DescribeEnvironments error or
\* by its deadline and in no other way, and DescribeEvents is not called
\* while it runs.
C19_PrecheckWatchesReady ==
  /\ precheck \in {"none", "ready", "error", "timeout"}
  /\ timers = "pre" => NumCalls("DescribeEvents") = 0 /\ polls = 0
  /\ pc = "waitDescribe" =>
       \A out \in DescribeEnvironmentsOutput(1) :
         IF out # << >> /\ out[1].Status = EnvironmentStatusReady
           THEN ENABLED (WaitDescribeReturn(FALSE, out) /\ precheck' = "ready"
                           /\ pc' = "UpdateEnvironment")
           ELSE ENABLED (WaitDescribeReturn(FALSE, out) /\ precheck' = "none"
                           /\ pc' = "waitSelect")

\* C20: "single": the pre-check and the loop each make a deadline of their
\* own, the full Timeout after the moment it is made; the loop's is made
\* when the pre-check has returned on Ready, in the step that issues
\* UpdateEnvironment.  A deadline is not moved once made and fires at its
\* boundary and not before, so the time the pre-check took is not taken from
\* the loop's deadline.
C20_DeadlinePerPhase ==
  [][variant = "single" =>
       /\ timers' # timers
            => /\ toutAt' = clock + Timeout
               /\ tout' = (Timeout <= 0)
               /\ clock' = clock
       /\ (timers = "off" /\ timers' # timers)
            => timers' = "pre" /\ calls' = calls
       /\ (timers = "pre" /\ timers' # timers)
            => /\ timers' = "loop"
               /\ precheck' = "ready"
               /\ NumCalls("UpdateEnvironment") = 0
               /\ calls' = Append(calls, "UpdateEnvironment")
       /\ timers' = timers
            => /\ toutAt' = toutAt
               /\ (tout' /\ ~tout) => clock' = toutAt
       /\ tout' => clock' >= toutAt']_vars

\* The pre-check saw Ready at its own deadline, and the loop then ran its
\* full deadline: Exec ended TimedOut two timeouts after it started.
C20_Witness ==
  /\ variant = "single"
  /\ Timeout = 2
  /\ precheck = "ready"
  /\ pc = "done"
  /\ result = "TimedOut"
  /\ clock = 2 * Timeout
  /\ toutAt = 2 * Timeout

====
